---- MODULE Spec2Model ----
(***************************************************************************)
(* NutriPlan backend (backend/server.py): meal-plan generation with its    *)
(* fallback, the plan store, the dining-status editor and the grocery      *)
(* aggregator.  JSON objects are functions from key strings to values,     *)
(* JSON arrays are sequences, so (k in d) is k \in DOMAIN d.               *)
(***************************************************************************)
EXTENDS Integers, Sequences, FiniteSets, TLC

VARIABLES
    plans,        \* db.meal_plans, the documents in insertion order
    profile,      \* the profile field of each user's document in db.users
    now,          \* the last reading of the clock
    resp,         \* what the caller of the last request got back
    ai_invoked,   \* whether the last request called generate_meal_plan_with_ai
    users,        \* db.users, the documents in insertion order
    inflight,     \* the requests suspended at an await between two store calls
    finished      \* the requests of inflight that have returned, as they ended

vars == <<plans, profile, now, resp, ai_invoked, users, inflight, finished>>

(* ------------------------------ bounds -------------------------------- *)

\* plans the store may hold before generate requests stop being issued
MaxPlans == 2
\* last clock tick at which a plan may be stamped
MaxTime == 1
\* clock ticks per second (the microsecond field of utcnow, scaled down)
TicksPerSec == 2

(* --------------------------- program constants ------------------------ *)

NumDays == 7

MealTypes == <<"breakfast", "lunch", "dinner">>

Users == {"alice", "bob"}

\* the documents of db.users the tokens of Users resolve to; a user
\* identifier is opaque, the users of Users have their names as identifiers
RegisteredUsers ==
    <<[user_id |-> "alice", username |-> "alice"],
      [user_id |-> "bob", username |-> "bob"]>>

HTTP_OK == 200
HTTP_BAD_REQUEST == 400
HTTP_NOT_FOUND == 404
HTTP_ERROR == 500

(* ----------------------------- JSON helpers --------------------------- *)

EmptyObj == [k \in {} |-> 0]

\* d[k] = v on a dict
SetKey(d, k, v) == [x \in DOMAIN d \cup {k} |-> IF x = k THEN v ELSE d[x]]

\* d.get(k, default)
Get(d, k, default) == IF k \in DOMAIN d THEN d[k] ELSE default

Nutrition(cal, pro, carb, fat, fib, sug) ==
    [calories |-> cal, protein |-> pro, carbs |-> carb, fat |-> fat,
     fiber |-> fib, sugar |-> sug]

(* ------------------------- the fallback meal plan --------------------- *)

\* one element of the comprehension over range(7)
FallbackDay(i) ==
    [day |-> i + 1,
     breakfast |->
        [name |-> "Day " \o ToString(i + 1) \o " Breakfast",
         recipe |-> [ingredients |-> <<"1 cup oats", "1 cup milk", "1 banana">>,
                     instructions |-> <<"Cook oats with milk", "Top with sliced banana">>],
         nutrition |-> Nutrition(350, 12, 60, 8, 6, 15)],
     lunch |->
        [name |-> "Day " \o ToString(i + 1) \o " Lunch",
         recipe |-> [ingredients |-> <<"150g chicken", "2 cups salad", "1 tbsp dressing">>,
                     instructions |-> <<"Grill chicken", "Prepare salad", "Add dressing">>],
         nutrition |-> Nutrition(400, 35, 10, 20, 4, 5)],
     dinner |->
        [name |-> "Day " \o ToString(i + 1) \o " Dinner",
         recipe |-> [ingredients |-> <<"1 cup rice", "100g vegetables", "1 tbsp oil">>,
                     instructions |-> <<"Cook rice", "Stir fry vegetables", "Combine">>],
         nutrition |-> Nutrition(450, 15, 70, 12, 5, 8)]]

\* the comprehension with the day entries built from 1..7 instead of 0..6
FallbackPlanOffByOne == [days |-> [k \in 1..NumDays |-> FallbackDay(k)]]

FallbackPlan == [days |-> [k \in 1..NumDays |-> FallbackDay(k - 1)]]

(* ------------------ what the generation capability returns ------------ *)

\* a meal as the prompt's example shows it, with a day-specific ingredient
AiMeal(mt, k) ==
    IF mt = "breakfast" THEN
        [name |-> "Oatmeal Bowl",
         recipe |-> [ingredients |-> <<"1 cup oats", "fruit " \o ToString(k)>>,
                     instructions |-> <<"Cook oats">>],
         nutrition |-> Nutrition(350, 12, 60, 8, 6, 15)]
    ELSE IF mt = "lunch" THEN
        [name |-> "Chicken Salad",
         recipe |-> [ingredients |-> <<"150g chicken">>,
                     instructions |-> <<"Grill chicken", "Mix with lettuce">>],
         nutrition |-> Nutrition(400, 35, 10, 20, 4, 5)]
    ELSE
        [name |-> "Rice Bowl",
         recipe |-> [ingredients |-> <<"1 cup rice", "1 cup oats", "1 tbsp oil">>,
                     instructions |-> <<"Cook rice", "Combine">>],
         nutrition |-> Nutrition(450, 15, 70, 12, 5, 8)]

\* a day entry of the shape the prompt asks for
AiDay(k) ==
    [day |-> k, breakfast |-> AiMeal("breakfast", k), lunch |-> AiMeal("lunch", k),
     dinner |-> AiMeal("dinner", k)]

\* a day entry the model got wrong: the first two day numbers swapped, no
\* day number on the last entry, a flag already set on breakfast, a dinner
\* without recipe and nutrition, and no lunch on the third entry
OddDay(k) ==
    LET meals == [breakfast |-> SetKey(AiMeal("breakfast", k), "dining_out", TRUE),
                  dinner |-> [name |-> "Soup"]]
        slots == IF k = 3 THEN meals ELSE SetKey(meals, "lunch", AiMeal("lunch", k))
    IN  IF k = NumDays THEN slots
        ELSE SetKey(slots, "day", IF k = 1 THEN 2 ELSE IF k = 2 THEN 1 ELSE k)

ObjectNames == {"ok7", "short", "nodays", "odd"}

\* the JSON object each object text stands for
ObjectOf(p) ==
    CASE p = "ok7"      -> [days |-> [k \in 1..NumDays |-> AiDay(k)]]
      [] p = "short"    -> [days |-> [k \in 1..(NumDays - 1) |-> AiDay(k)]]
      [] p = "nodays"   -> [meals |-> [k \in 1..NumDays |-> AiDay(k)]]
      [] p = "odd"      -> [days |-> [k \in 1..NumDays |-> OddDay(k)]]

\* response bodies, as token sequences: an object, a truncated object,
\* a bare number, plain prose
Bodies ==
    {<<"{", p, "}">> : p \in ObjectNames}
        \cup {<<"{", "ok7">>, <<"scalar">>, <<"prose">>}

\* what the model may put around the body: nothing, whitespace, code fences, prose
Wrappers ==
    {<<<<>>, <<>>>>,
     <<<<"ws">>, <<"ws">>>>,
     <<<<"fence_json", "ws">>, <<"ws", "fence">>>>,
     <<<<"fence">>, <<"fence", "ws">>>>,
     <<<<"prose", "ws">>, <<"ws", "prose">>>>}

\* the bodies that are also tried inside every wrapper
WrappedBodies == {<<"{", "ok7", "}">>, <<"scalar">>, <<"prose">>}

ResponseTexts == Bodies \cup {w[1] \o b \o w[2] : w \in Wrappers, b \in WrappedBodies}

\* chat.send_message either raises or returns a text
AiOutcomes ==
    {[raised |-> TRUE, text |-> <<>>]}
        \cup {[raised |-> FALSE, text |-> t] : t \in ResponseTexts}

\* a response that is prose and nothing else
UnparseableOutcomes == {[raised |-> FALSE, text |-> <<"prose">>]}

\* the responses the generate requests draw from when the store holds n
\* plans: the full range for the first plan, prose for those after it
OutcomesWhenHolding(n) == IF n = 0 THEN AiOutcomes ELSE UnparseableOutcomes

(* --------------------- cleaning and parsing the response -------------- *)

RECURSIVE LStrip(_)
LStrip(s) == IF s # <<>> /\ Head(s) = "ws" THEN LStrip(Tail(s)) ELSE s

RECURSIVE RStrip(_)
RStrip(s) ==
    IF s # <<>> /\ s[Len(s)] = "ws" THEN RStrip(SubSeq(s, 1, Len(s) - 1)) ELSE s

\* str.strip()
Strip(s) == RStrip(LStrip(s))

\* the if/elif on startswith and the if on endswith
RemoveFences(s) ==
    LET a == IF s # <<>> /\ s[1] = "fence_json" THEN Tail(s)
             ELSE IF s # <<>> /\ s[1] = "fence" THEN Tail(s)
             ELSE s
    IN  IF a # <<>> /\ a[Len(a)] = "fence" THEN SubSeq(a, 1, Len(a) - 1) ELSE a

\* str.find of an opening brace: the first position, -1 when there is none
Find(s, c) ==
    IF \E i \in 1..Len(s) : s[i] = c
    THEN CHOOSE i \in 1..Len(s) : s[i] = c /\ \A j \in 1..(i - 1) : s[j] # c
    ELSE -1

\* str.rfind of a closing brace: the last position, -1 when there is none
RFind(s, c) ==
    IF \E i \in 1..Len(s) : s[i] = c
    THEN CHOOSE i \in 1..Len(s) : s[i] = c /\ \A j \in (i + 1)..Len(s) : s[j] # c
    ELSE -1

\* the excision of the text between the first opening and the last closing brace
ExciseObject(s) ==
    LET start_idx == Find(s, "{")
        end_idx == RFind(s, "}")
    IN  IF start_idx # -1 /\ end_idx # -1 /\ end_idx > start_idx
        THEN SubSeq(s, start_idx, end_idx)
        ELSE s

\* response.strip(), fence removal, strip(), excision
CleanResponse(text) == ExciseObject(Strip(RemoveFences(Strip(text))))

\* json.loads: whitespace between tokens is insignificant
JsonLoads(s) ==
    LET t == SelectSeq(s, LAMBDA x : x # "ws")
    IN  IF Len(t) = 3 /\ t[1] = "{" /\ t[3] = "}" /\ t[2] \in ObjectNames
        THEN [error |-> "none", isDict |-> TRUE, value |-> ObjectOf(t[2])]
        ELSE IF t = <<"scalar">>
        THEN [error |-> "none", isDict |-> FALSE, value |-> EmptyObj]
        ELSE [error |-> "JSONDecodeError", isDict |-> FALSE, value |-> EmptyObj]

\* the structure validation of the parsed data: the exception it ends in
ValidateStructure(parsed) ==
    IF ~parsed.isDict THEN "TypeError"
    ELSE IF "days" \notin DOMAIN parsed.value THEN "ValueError"
    ELSE IF Len(parsed.value["days"]) # NumDays THEN "ValueError"
    ELSE "none"

\* the handlers of the inner try: only json.JSONDecodeError is caught
CaughtByInnerTry(exc) == exc = "JSONDecodeError"

\* generate_meal_plan_with_ai: the plan it returns, or the HTTP 500 it raises
generate_meal_plan_with_ai(outcome) ==
    IF outcome.raised THEN [status |-> HTTP_ERROR, data |-> EmptyObj]
    ELSE
        LET parsed == JsonLoads(CleanResponse(outcome.text))
            exc == IF parsed.error # "none" THEN parsed.error
                   ELSE ValidateStructure(parsed)
        IN  IF exc = "none" THEN [status |-> HTTP_OK, data |-> parsed.value]
            ELSE IF CaughtByInnerTry(exc)
            THEN [status |-> HTTP_OK, data |-> FallbackPlan]
            ELSE [status |-> HTTP_ERROR, data |-> EmptyObj]

(* ------------------------------ the plan store ------------------------ *)

\* datetime.isoformat(): the fields of the text, seconds then microseconds;
\* the microsecond field is left out when it is zero
IsoFormat(t) ==
    IF t % TicksPerSec = 0 THEN <<t \div TicksPerSec>>
    ELSE <<t \div TicksPerSec, t % TicksPerSec>>

\* string order of two timestamps (fields are fixed-width digits; a proper
\* prefix sorts first)
StrLess(a, b) ==
    \E i \in 1..Len(b) :
        /\ i <= Len(a) + 1
        /\ \A j \in 1..(i - 1) : a[j] = b[j]
        /\ (i = Len(a) + 1 \/ a[i] < b[i])

\* an identifier generator that hands the first identifier out again
FreshPlanIdRepeating == IF plans = <<>> THEN Len(plans) + 1 ELSE plans[1].meal_plan_id

\* uuid.uuid4(): an identifier no stored plan carries
FreshPlanId == Len(plans) + 1

\* identifiers a request may name, handed out already or not
PlanIds == 1..MaxPlans

\* the lookup with the user_id filter left out
FindByIdForAnyUser(pid, u) ==
    LET hits == {i \in 1..Len(plans) : plans[i].meal_plan_id = pid}
    IN  IF hits = {} THEN 0 ELSE CHOOSE i \in hits : \A j \in hits : i <= j

\* find_one({"meal_plan_id": pid, "user_id": u}): the position of the first
\* match, 0 for None
FindByIdForUser(pid, u) ==
    LET hits == {i \in 1..Len(plans) :
                    plans[i].meal_plan_id = pid /\ plans[i].user_id = u}
    IN  IF hits = {} THEN 0 ELSE CHOOSE i \in hits : \A j \in hits : i <= j

\* the lookup with the sort ascending
OldestForUser(u) ==
    {i \in 1..Len(plans) :
        /\ plans[i].user_id = u
        /\ \A j \in 1..Len(plans) :
              plans[j].user_id = u =>
                  ~StrLess(plans[j].created_at, plans[i].created_at)}

\* the documents find_one({"user_id": u}, sort=[("created_at", -1)]) may
\* return: those of u that no other document of u follows in the sort order
LatestForUser(u) ==
    {i \in 1..Len(plans) :
        /\ plans[i].user_id = u
        /\ \A j \in 1..Len(plans) :
              plans[j].user_id = u =>
                  ~StrLess(plans[i].created_at, plans[j].created_at)}

\* the write as update_one with an empty filter
UpdateDaysFieldOfFirstDocument(store, pid, days) ==
    IF store = <<>> THEN store ELSE [store EXCEPT ![1].meal_plan.days = days]

\* the write as update_many with an empty filter
UpdateDaysFieldOfEveryDocument(store, pid, days) ==
    [i \in 1..Len(store) |-> [store[i] EXCEPT !.meal_plan.days = days]]

\* update_one({"meal_plan_id": pid}, {"$set": {"meal_plan.days": days}}):
\* the first document with that identifier gets the new days
UpdateDaysField(store, pid, days) ==
    LET hits == {i \in 1..Len(store) : store[i].meal_plan_id = pid}
    IN  IF hits = {} THEN store
        ELSE LET i == CHOOSE k \in hits : \A j \in hits : k <= j
             IN  [store EXCEPT ![i].meal_plan.days = days]

(* ------------------------------- responses ---------------------------- *)

\* what the caller gets back: the endpoint, the status code, and the body's
\* meal_plan_id, meal_plan days and ingredients where the body has them
Response(op, status) ==
    [op |-> op, status |-> status, meal_plan_id |-> 0, days |-> <<>>,
     ingredients |-> <<>>]

(* --------------------------------- profile ---------------------------- *)

\* current_user["profile"] of a user that has not stored one (None)
NoProfile == EmptyObj

\* profile.dict() of the profile the tests post
SampleProfile ==
    [gender |-> "male", age |-> 30, activity_level |-> "moderately_active",
     fitness_goal |-> "weight_loss", calorie_target |-> 2000]

\* POST /api/profile
create_or_update_profile(u) ==
    /\ profile' = [profile EXCEPT ![u] = SampleProfile]
    /\ resp' = Response("profile", HTTP_OK)
    /\ ai_invoked' = FALSE
    /\ UNCHANGED <<plans, now, users, inflight, finished>>

(* ----------------------------- generate endpoint ---------------------- *)

IsMealType(key) == \E i \in 1..Len(MealTypes) : MealTypes[i] = key

\* the inner loop writing the negation of the flag it finds, an absent
\* flag counted as set
AddFlagsToDayNegating(day) ==
    [key \in DOMAIN day |->
        IF IsMealType(key)
        THEN SetKey(day[key], "dining_out", ~Get(day[key], "dining_out", TRUE))
        ELSE day[key]]

\* the inner loop with setdefault in place of the assignment
AddFlagsToDayKeepingExisting(day) ==
    [key \in DOMAIN day |->
        IF IsMealType(key) /\ "dining_out" \notin DOMAIN day[key]
        THEN SetKey(day[key], "dining_out", FALSE)
        ELSE day[key]]

\* the inner loop over meal types: day[meal_type]["dining_out"] = False
AddFlagsToDay(day) ==
    [key \in DOMAIN day |->
        IF IsMealType(key) THEN SetKey(day[key], "dining_out", FALSE)
        ELSE day[key]]

\* the loop over meal_plan_data.get("days", [])
AddDiningOutFlags(data) ==
    IF "days" \in DOMAIN data
    THEN [data EXCEPT !["days"] = [k \in 1..Len(@) |-> AddFlagsToDay(@[k])]]
    ELSE data

\* the endpoint without the profile check of lines 368-369
generate_meal_plan_without_profile_check(u, outcome, t) ==
    /\ Len(plans) < MaxPlans
    /\ t \in now..MaxTime
    /\ LET r == generate_meal_plan_with_ai(outcome)
       IN  IF r.status # HTTP_OK
           THEN /\ resp' = Response("generate", r.status)
                /\ ai_invoked' = TRUE
                /\ UNCHANGED <<plans, profile, now, users, inflight, finished>>
           ELSE LET meal_plan_data == AddDiningOutFlags(r.data)
                    meal_plan_doc ==
                        [meal_plan_id |-> FreshPlanId,
                         user_id |-> u,
                         meal_plan |-> meal_plan_data,
                         created_at |-> IsoFormat(t)]
                IN  /\ plans' = Append(plans, meal_plan_doc)
                    /\ now' = t
                    /\ ai_invoked' = TRUE
                    /\ resp' = [Response("generate", HTTP_OK) EXCEPT
                                   !.meal_plan_id = FreshPlanId,
                                   !.days = Get(meal_plan_data, "days", <<>>)]
                    /\ UNCHANGED <<profile, users, inflight, finished>>

\* POST /api/meal-plan/generate by user u, the capability answering with
\* outcome and the clock reading t at the time the document is built
generate_meal_plan(u, outcome, t) ==
    /\ Len(plans) < MaxPlans
    /\ t \in now..MaxTime
    /\ IF profile[u] = NoProfile
       THEN /\ resp' = Response("generate", HTTP_BAD_REQUEST)
            /\ ai_invoked' = FALSE
            /\ UNCHANGED <<plans, profile, now, users, inflight, finished>>
       ELSE LET r == generate_meal_plan_with_ai(outcome)
            IN  IF r.status # HTTP_OK
                THEN /\ resp' = Response("generate", r.status)
                     /\ ai_invoked' = TRUE
                     /\ UNCHANGED <<plans, profile, now, users, inflight, finished>>
                ELSE LET meal_plan_data == AddDiningOutFlags(r.data)
                         meal_plan_id == FreshPlanId
                         meal_plan_doc ==
                             [meal_plan_id |-> meal_plan_id,
                              user_id |-> u,
                              meal_plan |-> meal_plan_data,
                              created_at |-> IsoFormat(t)]
                     IN  /\ plans' = Append(plans, meal_plan_doc)
                         /\ now' = t
                         /\ ai_invoked' = TRUE
                         /\ resp' = [Response("generate", HTTP_OK) EXCEPT
                                        !.meal_plan_id = meal_plan_id,
                                        !.days = Get(meal_plan_data, "days", <<>>)]
                         /\ UNCHANGED <<profile, users, inflight, finished>>

(* ------------------------------ latest endpoint ----------------------- *)

\* GET /api/meal-plan/latest by user u
get_latest_meal_plan(u) ==
    /\ IF LatestForUser(u) = {}
       THEN resp' = Response("latest", HTTP_NOT_FOUND)
       ELSE \E i \in LatestForUser(u) :
                resp' = [Response("latest", HTTP_OK) EXCEPT
                            !.meal_plan_id = plans[i].meal_plan_id,
                            !.days = plans[i].meal_plan.days]
    /\ ai_invoked' = FALSE
    /\ UNCHANGED <<plans, profile, now, users, inflight, finished>>

(* --------------------------- dining-status editor --------------------- *)

\* the values update-meal requests carry: the first day and the day after
\* the last; a meal slot, another key of a day entry, and no key of it
ReqDays == {1, NumDays + 1}

ReqMealTypes == {"breakfast", "day", "snack"}

\* whether day[key] supports item assignment: every key of a day entry holds
\* an object, except "day", which holds an int
HoldsObject(key) == key # "day"

\* the scan of the days from entry i on: the exception it ends in and the days
\* as the loop leaves them
RECURSIVE ScanDays(_, _, _, _, _)
ScanDays(days, i, day, meal_type, dining_out) ==
    IF i > Len(days) THEN [exc |-> "none", days |-> days]
    ELSE IF "day" \notin DOMAIN days[i] THEN [exc |-> "KeyError", days |-> days]
    ELSE IF days[i]["day"] = day /\ meal_type \in DOMAIN days[i]
    THEN IF HoldsObject(meal_type)
         THEN [exc |-> "none",
               days |-> [days EXCEPT ![i][meal_type] =
                            SetKey(@, "dining_out", dining_out)]]
         ELSE [exc |-> "TypeError", days |-> days]
    ELSE ScanDays(days, i + 1, day, meal_type, dining_out)

\* the loop writing True whatever the request asks for
SetDiningOutAlwaysTrue(days, day, meal_type, dining_out) ==
    ScanDays(days, 1, day, meal_type, TRUE)

\* the loop of update_meal_dining_status over the days it read
SetDiningOut(days, day, meal_type, dining_out) ==
    ScanDays(days, 1, day, meal_type, dining_out)

\* the days of the stored document with identifier pid
PlanDaysNow(pid) ==
    LET hits == {i \in 1..Len(plans) : plans[i].meal_plan_id = pid}
    IN  plans[CHOOSE i \in hits : TRUE].meal_plan.days

\* PUT /api/meal-plan/update-meal by user u
update_meal_dining_status(u, pid, day, meal_type, dining_out) ==
    LET i == FindByIdForUser(pid, u)
    IN  /\ IF i = 0
           THEN /\ resp' = Response("update", HTTP_NOT_FOUND)
                /\ UNCHANGED plans
           ELSE LET r == SetDiningOut(plans[i].meal_plan.days, day, meal_type,
                                      dining_out)
                IN  IF r.exc # "none"
                    THEN /\ resp' = Response("update", HTTP_ERROR)
                         /\ UNCHANGED plans
                    ELSE /\ plans' = UpdateDaysField(plans, pid, r.days)
                         /\ resp' = Response("update", HTTP_OK)
        /\ ai_invoked' = FALSE
        /\ UNCHANGED <<profile, now, users, inflight, finished>>

(* ----------------------------- grocery aggregator --------------------- *)

\* the slot's ingredients without the dining_out test
MealIngredientsIgnoringFlag(day, meal_type) ==
    IF meal_type \in DOMAIN day
    THEN Get(Get(day[meal_type], "recipe", EmptyObj), "ingredients", <<>>)
    ELSE <<>>

\* what one meal slot of a day adds to all_ingredients
MealIngredients(day, meal_type) ==
    IF meal_type \in DOMAIN day
    THEN LET meal == day[meal_type]
         IN  IF ~Get(meal, "dining_out", FALSE)
             THEN Get(Get(meal, "recipe", EmptyObj), "ingredients", <<>>)
             ELSE <<>>
    ELSE <<>>

\* the inner loop over the meal types, from the k-th type on
RECURSIVE DayIngredients(_, _)
DayIngredients(day, k) ==
    IF k > Len(MealTypes) THEN <<>>
    ELSE MealIngredients(day, MealTypes[k]) \o DayIngredients(day, k + 1)

\* the outer loop over the days, from entry i on
RECURSIVE AggregateFrom(_, _)
AggregateFrom(days, i) ==
    IF i > Len(days) THEN <<>>
    ELSE DayIngredients(days[i], 1) \o AggregateFrom(days, i + 1)

Aggregate(days) == AggregateFrom(days, 1)

\* GET /api/grocery-list/{meal_plan_id} by user u
get_grocery_list(u, pid) ==
    LET i == FindByIdForUser(pid, u)
    IN  /\ IF i = 0
           THEN resp' = Response("grocery", HTTP_NOT_FOUND)
           ELSE resp' = [Response("grocery", HTTP_OK) EXCEPT
                            !.meal_plan_id = pid,
                            !.ingredients = Aggregate(plans[i].meal_plan.days)]
        /\ ai_invoked' = FALSE
        /\ UNCHANGED <<plans, profile, now, users, inflight, finished>>

(* ------------------------------ specification ------------------------- *)

\* a generate request with a response the bounds admit
GenerateRequest(u, outcome, t) ==
    /\ outcome \in OutcomesWhenHolding(Len(plans))
    /\ generate_meal_plan(u, outcome, t)

\* an update-meal request; the requests that find no plan are issued with
\* one day, meal type and value, which that path does not read
UpdateRequest(u, pid, day, meal_type, dining_out) ==
    /\ FindByIdForUser(pid, u) = 0
           => (day = 1 /\ meal_type = "breakfast" /\ dining_out)
    /\ update_meal_dining_status(u, pid, day, meal_type, dining_out)

Init ==
    /\ plans = <<>>
    /\ profile = [u \in Users |-> NoProfile]
    /\ now = 0
    /\ resp = Response("none", HTTP_OK)
    /\ ai_invoked = FALSE
    /\ users = RegisteredUsers
    /\ inflight = {}
    /\ finished = {}

Next ==
    \/ \E u \in Users : create_or_update_profile(u)
    \/ \E u \in Users, outcome \in AiOutcomes, t \in 0..MaxTime :
           GenerateRequest(u, outcome, t)
    \/ \E u \in Users : get_latest_meal_plan(u)
    \/ \E u \in Users, pid \in PlanIds, day \in ReqDays,
          meal_type \in ReqMealTypes, dining_out \in BOOLEAN :
           UpdateRequest(u, pid, day, meal_type, dining_out)
    \/ \E u \in Users, pid \in PlanIds : get_grocery_list(u, pid)

Spec == Init /\ [][Next]_vars

(* ------------------- update-meal requests that interleave ------------- *)

\* update-meal requests issued in a behaviour of ConcurrentSpec
MaxUpdateRequests == 2

\* the meals the interleaving requests name, as day and meal type
ConcurrentTargets == {<<1, "breakfast">>, <<2, "lunch">>}

\* the number the next request gets, in order of arrival
NextRequest == Cardinality(inflight) + Cardinality(finished) + 1

\* a request as it returned: its status, its place among those that returned
\* and the requests that were suspended when it returned
Finish(r, status) ==
    [r EXCEPT !.status = status,
              !.seq = Cardinality(finished) + 1,
              !.racing = {x.n : x \in inflight \ {r}}]

\* update_meal_dining_status up to its first store call: find_one answers
\* and the handler is suspended at the await of update_one, or raises 404
update_meal_find_one(u, pid, day, meal_type, dining_out) ==
    LET i == FindByIdForUser(pid, u)
        r == [n |-> NextRequest, op |-> "update", user_id |-> u,
              meal_plan_id |-> pid, day |-> day, meal_type |-> meal_type,
              dining_out |-> dining_out,
              read |-> IF i = 0 THEN <<>> ELSE plans[i].meal_plan.days,
              status |-> 0, seq |-> 0, racing |-> {}]
    IN  /\ NextRequest <= MaxUpdateRequests
        /\ IF i = 0
           THEN /\ finished' = finished \cup {Finish(r, HTTP_NOT_FOUND)}
                /\ resp' = Response("update", HTTP_NOT_FOUND)
                /\ UNCHANGED inflight
           ELSE /\ inflight' = inflight \cup {r}
                /\ UNCHANGED <<finished, resp>>
        /\ ai_invoked' = FALSE
        /\ UNCHANGED <<plans, profile, now, users>>

\* the rest of the handler of request r, run on the given days: the loop,
\* update_one and the return
WriteBack(r, days) ==
    LET res == SetDiningOut(days, r.day, r.meal_type, r.dining_out)
    IN  /\ r \in inflight
        /\ inflight' = inflight \ {r}
        /\ IF res.exc # "none"
           THEN /\ finished' = finished \cup {Finish(r, HTTP_ERROR)}
                /\ resp' = Response("update", HTTP_ERROR)
                /\ UNCHANGED plans
           ELSE /\ plans' = UpdateDaysField(plans, r.meal_plan_id, res.days)
                /\ finished' = finished \cup {Finish(r, HTTP_OK)}
                /\ resp' = Response("update", HTTP_OK)
        /\ ai_invoked' = FALSE
        /\ UNCHANGED <<profile, now, users>>

\* the handler running its loop on the days the store holds when it resumes
update_meal_update_one_rereading(r) ==
    WriteBack(r, PlanDaysNow(r.meal_plan_id))

\* update_meal_dining_status from the await of find_one on: the loop runs on
\* the days find_one returned
update_meal_update_one(r) ==
    WriteBack(r, r.read)

\* the owner of the i-th stored plan sends an update-meal request for it
UpdateByOwner(i, day, meal_type, dining_out) ==
    update_meal_find_one(plans[i].user_id, plans[i].meal_plan_id, day,
                         meal_type, dining_out)

ConcurrentNext ==
    \/ \E u \in Users : create_or_update_profile(u)
    \/ \E u \in Users, outcome \in AiOutcomes, t \in 0..MaxTime :
           GenerateRequest(u, outcome, t)
    \/ \E i \in 1..Len(plans), target \in ConcurrentTargets, dining_out \in BOOLEAN :
           UpdateByOwner(i, target[1], target[2], dining_out)
    \/ \E r \in inflight : update_meal_update_one(r)

ConcurrentSpec == Init /\ [][ConcurrentNext]_vars

(* -------------------- register requests that interleave --------------- *)

\* register requests issued in a behaviour of RegisterSpec
MaxRegisterRequests == 3

\* the usernames register requests carry: one that is stored and two that
\* are not
RegisterNames == {"alice", "carol", "dave"}

\* find_one({"username": name}): the first document with that username, 0
\* when there is none
FindByUsername(name) ==
    LET hits == {i \in 1..Len(users) : users[i].username = name}
    IN  IF hits = {} THEN 0 ELSE CHOOSE i \in hits : \A j \in hits : i <= j

\* str(uuid.uuid4()) of the n-th request: a string no other request draws
Uuid4(n) == "user-" \o ToString(n)

\* register up to its first store call: find_one answers and the handler
\* raises 400 or is suspended at the await of insert_one
register_find_one(name) ==
    LET r == [n |-> NextRequest, op |-> "register", username |-> name,
              user_id |-> Uuid4(NextRequest),
              status |-> 0, seq |-> 0, racing |-> {}]
    IN  /\ NextRequest <= MaxRegisterRequests
        /\ IF FindByUsername(name) # 0
           THEN /\ finished' = finished \cup {Finish(r, HTTP_BAD_REQUEST)}
                /\ resp' = Response("register", HTTP_BAD_REQUEST)
                /\ UNCHANGED inflight
           ELSE /\ inflight' = inflight \cup {r}
                /\ UNCHANGED <<finished, resp>>
        /\ ai_invoked' = FALSE
        /\ UNCHANGED <<plans, profile, now, users>>

\* register from the await of find_one on: insert_one of the new document,
\* whose profile is None, and the return of the token
register_insert_one(r) ==
    /\ r \in inflight
    /\ inflight' = inflight \ {r}
    /\ users' = Append(users, [user_id |-> r.user_id, username |-> r.username])
    /\ profile' = [u \in DOMAIN profile \cup {r.user_id} |->
                      IF u = r.user_id THEN NoProfile ELSE profile[u]]
    /\ finished' = finished \cup {Finish(r, HTTP_OK)}
    /\ resp' = Response("register", HTTP_OK)
    /\ ai_invoked' = FALSE
    /\ UNCHANGED <<plans, now>>

RegisterNext ==
    \/ \E name \in RegisterNames : register_find_one(name)
    \/ \E r \in inflight : register_insert_one(r)

RegisterSpec == Init /\ [][RegisterNext]_vars

(* ============================ the claims ============================== *)

Range(f) == {f[x] : x \in DOMAIN f}

\* the stored document carrying identifier pid (identifiers are unique)
PlanById(pid) == plans[CHOOSE i \in 1..Len(plans) : plans[i].meal_plan_id = pid]

\* the response text parsed to an object that fails the structure validation
StructurallyInvalid(outcome) ==
    /\ ~outcome.raised
    /\ LET parsed == JsonLoads(CleanResponse(outcome.text))
       IN  /\ parsed.error = "none"
           /\ parsed.isDict
           /\ \/ "days" \notin DOMAIN parsed.value
              \/ Len(parsed.value["days"]) # NumDays

\* the response text could not be parsed at all
ParseFails(outcome) ==
    /\ ~outcome.raised
    /\ JsonLoads(CleanResponse(outcome.text)).error = "JSONDecodeError"

StructurallyInvalidOutcomes == {o \in AiOutcomes : StructurallyInvalid(o)}

ParseFailureOutcomes == {o \in AiOutcomes : ParseFails(o)}

\* a meal with a name, both recipe lists and the six nutrition fields
WellShapedMeal(meal) ==
    /\ {"name", "recipe", "nutrition"} \subseteq DOMAIN meal
    /\ {"ingredients", "instructions"} \subseteq DOMAIN meal["recipe"]
    /\ {"calories", "protein", "carbs", "fat", "fiber", "sugar"}
           \subseteq DOMAIN meal["nutrition"]

\* seven days, each with the three meal slots, each meal well shaped
WellShapedDays(days) ==
    /\ Len(days) = NumDays
    /\ \A i \in 1..Len(days) :
           \A m \in Range(MealTypes) :
               m \in DOMAIN days[i] /\ WellShapedMeal(days[i][m])

\* C1: whenever the response text parses as an object that has no days key,
\* or whose days sequence is not 7 long, a generate request of a user with a
\* profile ends without error and returns the fallback plan.
C1_FallbackOnInvalidStructure ==
    [][\A u \in Users, outcome \in StructurallyInvalidOutcomes, t \in 0..MaxTime :
          (/\ resp'.op = "generate"
           /\ profile[u] # NoProfile
           /\ generate_meal_plan(u, outcome, t))
              => /\ resp'.status = HTTP_OK
                 /\ Len(resp'.days) = NumDays
                 /\ \A i \in 1..NumDays :
                        /\ resp'.days[i]["day"] = i
                        /\ resp'.days[i]["breakfast"]["name"]
                               = "Day " \o ToString(i) \o " Breakfast"]_vars

\* C2: every plan a generate request returns has exactly 7 days, each with
\* breakfast, lunch and dinner, each meal with a name, recipe.ingredients,
\* recipe.instructions and the six nutrition fields.
C2_ReturnedPlanWellShaped ==
    (resp.op = "generate" /\ resp.status = HTTP_OK) => WellShapedDays(resp.days)

\* C3: every stored plan has exactly 7 day entries and the entry at
\* position i carries day number i.
C3_SevenDaysNumberedInOrder ==
    \A p \in 1..Len(plans) :
        LET days == plans[p].meal_plan.days
        IN  /\ Len(days) = NumDays
            /\ \A i \in 1..Len(days) :
                   "day" \in DOMAIN days[i] /\ days[i]["day"] = i

\* a plan's days with the dining_out key taken off every meal
WithoutFlags(days) ==
    [i \in 1..Len(days) |->
        [key \in DOMAIN days[i] |->
            IF IsMealType(key)
            THEN [f \in DOMAIN days[i][key] \ {"dining_out"} |-> days[i][key][f]]
            ELSE days[i][key]]]

\* the meal names of a fallback day, in the order of MealTypes
FallbackNames(i) ==
    <<"Day " \o ToString(i) \o " Breakfast", "Day " \o ToString(i) \o " Lunch",
      "Day " \o ToString(i) \o " Dinner">>

\* days as the claim describes the fallback plan
IsFallbackDays(days) ==
    /\ Len(days) = NumDays
    /\ \A i \in 1..NumDays :
           /\ days[i]["day"] = i
           /\ \A k \in 1..Len(MealTypes) :
                  LET meal == days[i][MealTypes[k]]
                      first == days[1][MealTypes[k]]
                  IN  /\ meal["name"] = FallbackNames(i)[k]
                      /\ meal["recipe"] = first["recipe"]
                      /\ meal["nutrition"] = first["nutrition"]
                      /\ meal["recipe"]["ingredients"] # <<>>

\* C4: when the response cannot be parsed, a generate request of a user with
\* a profile returns, without error, 7 days where day i has number i, meals
\* named Day i Breakfast, Day i Lunch, Day i Dinner, and recipes and nutrition
\* equal on all days; it equals, flags aside, every fallback plan stored
\* by an earlier such call.
C4_FallbackPlanOnParseFailure ==
    [][\A u \in Users, outcome \in ParseFailureOutcomes, t \in 0..MaxTime :
          (/\ resp'.op = "generate"
           /\ profile[u] # NoProfile
           /\ generate_meal_plan(u, outcome, t))
              => /\ resp'.status = HTTP_OK
                 /\ IsFallbackDays(resp'.days)
                 /\ \A p \in 1..Len(plans) :
                        LET days == plans[p].meal_plan.days
                        IN  days[1]["breakfast"]["name"] = "Day 1 Breakfast"
                                => WithoutFlags(days) = WithoutFlags(resp'.days)]_vars

\* C4 witness: a second fallback plan has just been returned and stored
C4_Witness ==
    /\ resp.op = "generate"
    /\ resp.status = HTTP_OK
    /\ Len(plans) = 2
    /\ \A p \in 1..2 :
           plans[p].meal_plan.days[3]["dinner"]["name"] = "Day 3 Dinner"

\* the dining_out flag of the meal under key m of entry i, absent counted apart
FlagOf(days, i, m) ==
    IF i \in 1..Len(days) /\ m \in DOMAIN days[i] /\ HoldsObject(m)
    THEN IF "dining_out" \in DOMAIN days[i][m]
         THEN IF days[i][m]["dining_out"] THEN "true" ELSE "false"
         ELSE "absent"
    ELSE "no meal"

\* C5: a plan a generate request inserts carries dining_out = false on
\* every meal of every day, and the flags of a stored plan change only in
\* an update-meal step that names that plan.
C5_FlagsFalseAtInsertThenEditorOnly ==
    [][/\ (resp'.op = "generate" /\ Len(plans') > Len(plans)) =>
            LET days == plans'[Len(plans')].meal_plan.days
            IN  \A i \in 1..Len(days) :
                    \A m \in Range(MealTypes) \cap DOMAIN days[i] :
                        FlagOf(days, i, m) = "false"
       /\ \A p \in 1..Len(plans) :
            (/\ plans'[p] # plans[p]
             /\ \E i \in 1..NumDays, m \in Range(MealTypes) :
                 FlagOf(plans'[p].meal_plan.days, i, m)
                     # FlagOf(plans[p].meal_plan.days, i, m))
                => \E u \in Users, day \in ReqDays, meal_type \in ReqMealTypes,
                      dining_out \in BOOLEAN :
                       update_meal_dining_status(u, plans[p].meal_plan_id, day,
                                                 meal_type, dining_out)]_vars

\* C5 witness: a stored plan whose generated text carried a set flag was
\* inserted with the flag false, and another plan has a flag set by the editor
C5_Witness ==
    /\ Len(plans) = 2
    /\ plans[1].meal_plan.days[1]["day"] = 2
    /\ FlagOf(plans[1].meal_plan.days, 1, "breakfast") = "false"
    /\ FlagOf(plans[2].meal_plan.days, 1, "breakfast") = "true"

\* C6: an update-meal or grocery-list request that names a plan of another
\* user ends in not-found with the body an unknown identifier gets, and
\* leaves the store unchanged.
C6_CrossUserIsolation ==
    [][\A u \in Users, pid \in PlanIds :
          (/\ resp'.op \in {"grocery", "update"}
           /\ \E p \in 1..Len(plans) :
               plans[p].meal_plan_id = pid /\ plans[p].user_id # u)
              => /\ \/ /\ resp' = Response("grocery", HTTP_NOT_FOUND)
                       /\ resp'.ingredients = <<>>
                       /\ plans' = plans
                    \/ ~get_grocery_list(u, pid)
                 /\ \/ /\ resp' = Response("update", HTTP_NOT_FOUND)
                       /\ plans' = plans
                    \/ ~\E day \in ReqDays, meal_type \in ReqMealTypes,
                          dining_out \in BOOLEAN :
                           update_meal_dining_status(u, pid, day, meal_type,
                                                     dining_out)]_vars

\* C6 witness: a request naming a stored plan has just ended in not-found
\* while both users own a plan
C6_Witness ==
    /\ resp.op \in {"update", "grocery"}
    /\ resp.status = HTTP_NOT_FOUND
    /\ Len(plans) = MaxPlans
    /\ \A u \in Users : \E p \in 1..Len(plans) : plans[p].user_id = u

\* the entry an edit of meal (day, meal_type) addresses: the first one that
\* carries that day number and that slot, 0 when the scan meets none
TargetIndex(days, day, meal_type) ==
    LET hits == {i \in 1..Len(days) :
                    /\ \A j \in 1..i : "day" \in DOMAIN days[j]
                    /\ days[i]["day"] = day
                    /\ meal_type \in DOMAIN days[i]
                    /\ \A j \in 1..(i - 1) :
                           ~(days[j]["day"] = day /\ meal_type \in DOMAIN days[j])}
    IN  IF hits = {} THEN 0 ELSE CHOOSE i \in hits : TRUE

\* the ingredient strings of the recipe of meal m of entry i
IngredientsOf(days, i, m) ==
    IF m \in DOMAIN days[i] /\ "recipe" \in DOMAIN days[i][m]
          /\ "ingredients" \in DOMAIN days[i][m]["recipe"]
    THEN days[i][m]["recipe"]["ingredients"]
    ELSE <<>>

NoSlot == <<0, "">>

\* the meal slots of a plan, entry by entry in the given order of entries,
\* breakfast, lunch, dinner within an entry
SlotsInOrder(order) ==
    [k \in 1..(Len(order) * Len(MealTypes)) |->
        <<order[((k - 1) \div Len(MealTypes)) + 1],
          MealTypes[((k - 1) % Len(MealTypes)) + 1]>>]

\* the ingredient lists of the slots from the k-th on, concatenated: a slot
\* counts when its meal is not dining out or is the slot counted as in, and
\* is not the slot counted as out
RECURSIVE ExpectedFrom(_, _, _, _, _)
ExpectedFrom(days, slots, k, out, in) ==
    IF k > Len(slots) THEN <<>>
    ELSE LET i == slots[k][1]
             m == slots[k][2]
             counts == /\ slots[k] # out
                       /\ FlagOf(days, i, m) \in {"false", "absent"} \/ slots[k] = in
         IN  (IF counts THEN IngredientsOf(days, i, m) ELSE <<>>)
                 \o ExpectedFrom(days, slots, k + 1, out, in)

\* the expected grocery list, the entries taken in sequence order
ExpectedList(days, out, in) ==
    ExpectedFrom(days, SlotsInOrder([i \in 1..Len(days) |-> i]), 1, out, in)

TotalIngredients(days) ==
    Len(ExpectedFrom(WithoutFlags(days), SlotsInOrder([i \in 1..Len(days) |-> i]),
                     1, NoSlot, NoSlot))

DayNumberOf(days, i) ==
    IF "day" \in DOMAIN days[i] THEN days[i]["day"] ELSE NumDays + 2

\* the entries of a plan in ascending day-number order
ByDayNumber(days) ==
    [r \in 1..Len(days) |->
        CHOOSE i \in 1..Len(days) :
            r = 1 + Cardinality({j \in 1..Len(days) :
                    \/ DayNumberOf(days, j) < DayNumberOf(days, i)
                    \/ DayNumberOf(days, j) = DayNumberOf(days, i) /\ j < i})]

\* C8: the grocery list returned for a stored plan is the ingredient lists
\* of the meals not dining out, in ascending day-number order, breakfast,
\* lunch, dinner within a day, duplicates kept.
C8_ListInDayNumberOrder ==
    (resp.op = "grocery" /\ resp.status = HTTP_OK) =>
        LET days == PlanById(resp.meal_plan_id).meal_plan.days
        IN  resp.ingredients =
                ExpectedFrom(days, SlotsInOrder(ByDayNumber(days)), 1, NoSlot, NoSlot)

\* every meal of the plan still carries the flag false it was inserted with
Fresh(days) ==
    \A i \in 1..Len(days), m \in Range(MealTypes) : FlagOf(days, i, m) # "true"

\* C9: marking a meal (d, m) of a freshly generated plan dining out makes
\* the grocery list shorter by the number of ingredient strings of that
\* meal's recipe, every other ingredient staying in place.
C9_MarkShortensByMealCount ==
    [][(resp'.op = "update" /\ resp'.status = HTTP_OK) =>
          \A u \in Users, pid \in PlanIds, d \in ReqDays,
             m \in Range(MealTypes) \cap ReqMealTypes :
              LET p == FindByIdForUser(pid, u)
                  days == plans[p].meal_plan.days
                  k == TargetIndex(days, d, m)
              IN  (/\ p # 0
                   /\ Fresh(days)
                   /\ k # 0
                   /\ update_meal_dining_status(u, pid, d, m, TRUE))
                      => /\ Len(Aggregate(plans'[p].meal_plan.days))
                               = Len(Aggregate(days)) - Len(IngredientsOf(days, k, m))
                         /\ Aggregate(plans'[p].meal_plan.days)
                               = ExpectedList(days, <<k, m>>, NoSlot)]_vars

\* C9 witness: exactly one meal of a stored plan is marked, its recipe has
\* ingredients, and the plan's list is that much shorter than the full one
C9_Witness ==
    /\ resp.op = "update"
    /\ resp.status = HTTP_OK
    /\ \E p \in 1..Len(plans) :
           LET days == plans[p].meal_plan.days
               marked == {s \in (1..Len(days)) \X Range(MealTypes) :
                             FlagOf(days, s[1], s[2]) = "true"}
           IN  /\ marked = {<<1, "breakfast">>}
               /\ IngredientsOf(days, 1, "breakfast") # <<>>
               /\ Len(Aggregate(days))
                      = TotalIngredients(days) - Len(IngredientsOf(days, 1, "breakfast"))

\* the clock reading a stored timestamp text stands for
ParseIso(text) ==
    IF Len(text) = 1 THEN text[1] * TicksPerSec ELSE text[1] * TicksPerSec + text[2]

PlansOf(u) == {p \in 1..Len(plans) : plans[p].user_id = u}

\* the plan of u inserted last
LastPlanOf(u) == CHOOSE p \in PlansOf(u) : \A q \in PlansOf(u) : q <= p

\* C10 as stated: latest ends in not-found exactly when the caller owns no
\* plan; otherwise it returns a plan of the caller with the maximum creation
\* timestamp among the caller's plans, and this is the plan the caller
\* generated last.
C10_LatestIsLastGenerated ==
    [][\A u \in Users :
          (resp'.op = "latest" /\ get_latest_meal_plan(u)) =>
              /\ resp'.status = HTTP_NOT_FOUND <=> PlansOf(u) = {}
              /\ PlansOf(u) # {} =>
                    /\ resp'.status = HTTP_OK
                    /\ \E p \in PlansOf(u) :
                           /\ plans[p].meal_plan_id = resp'.meal_plan_id
                           /\ \A q \in PlansOf(u) :
                                  ParseIso(plans[q].created_at)
                                      <= ParseIso(plans[p].created_at)
                    /\ resp'.meal_plan_id = plans[LastPlanOf(u)].meal_plan_id]_vars

\* C10 as amended: the plan returned is the one the caller generated last
\* whenever that plan's timestamp is later than those of the caller's
\* other plans.
C10_LatestHasMaxTimestamp ==
    [][\A u \in Users :
          (resp'.op = "latest" /\ get_latest_meal_plan(u)) =>
              /\ resp'.status = HTTP_NOT_FOUND <=> PlansOf(u) = {}
              /\ PlansOf(u) # {} =>
                    /\ resp'.status = HTTP_OK
                    /\ \E p \in PlansOf(u) :
                           /\ plans[p].meal_plan_id = resp'.meal_plan_id
                           /\ \A q \in PlansOf(u) :
                                  ParseIso(plans[q].created_at)
                                      <= ParseIso(plans[p].created_at)
                    /\ (\A q \in PlansOf(u) \ {LastPlanOf(u)} :
                            ParseIso(plans[q].created_at)
                                < ParseIso(plans[LastPlanOf(u)].created_at))
                           => resp'.meal_plan_id
                                  = plans[LastPlanOf(u)].meal_plan_id]_vars

\* C10 witness: the caller owns two plans with different timestamps and
\* latest has returned the second, while the other user owns none
C10_Witness ==
    /\ resp.op = "latest"
    /\ resp.status = HTTP_OK
    /\ Len(plans) = 2
    /\ plans[1].user_id = plans[2].user_id
    /\ plans[1].created_at # plans[2].created_at
    /\ resp.meal_plan_id = plans[2].meal_plan_id

\* C11: a generate request of a user who has no profile ends in the error
\* status 400 whatever the generation capability would answer, without the
\* capability being called, and the plan store is as it was.
C11_NoProfileRejectedBeforeGeneration ==
    [][\A u \in Users, outcome \in AiOutcomes, t \in 0..MaxTime :
          (/\ resp'.op = "generate"
           /\ profile[u] = NoProfile
           /\ generate_meal_plan(u, outcome, t))
              => /\ resp' = Response("generate", HTTP_BAD_REQUEST)
                 /\ ~ai_invoked'
                 /\ plans' = plans]_vars

\* C11 witness: a user without a profile has been rejected while the other
\* user, who has one, owns a stored plan
C11_Witness ==
    /\ resp = Response("generate", HTTP_BAD_REQUEST)
    /\ ~ai_invoked
    /\ \E u \in Users : profile[u] = NoProfile
    /\ Len(plans) = 1

\* no entry of the days carries the day number
MatchesNoEntry(days, day) ==
    \A i \in 1..Len(days) : "day" \notin DOMAIN days[i] \/ days[i]["day"] # day

\* C12: an update-meal request on a plan the caller owns, with a day number
\* that no entry of the plan carries, reports success and leaves the store
\* as it was.
C12_UnmatchedDayIsSilentNoOp ==
    [][(resp'.op = "update") =>
          \A u \in Users, pid \in PlanIds, day \in ReqDays,
             meal_type \in ReqMealTypes, dining_out \in BOOLEAN :
              LET p == FindByIdForUser(pid, u)
              IN  (/\ p # 0
                   /\ MatchesNoEntry(plans[p].meal_plan.days, day)
                   /\ update_meal_dining_status(u, pid, day, meal_type, dining_out))
                      => /\ resp' = Response("update", HTTP_OK)
                         /\ plans' = plans]_vars

\* C13: every update-meal request on a plan the caller owns ends in success,
\* whatever the meal-type string; when the string is not one of the meal
\* slots, the store is as it was.
C13_EveryMealTypeEndsInSuccess ==
    [][(resp'.op = "update") =>
          \A u \in Users, pid \in PlanIds, day \in ReqDays,
             meal_type \in ReqMealTypes, dining_out \in BOOLEAN :
              (/\ FindByIdForUser(pid, u) # 0
               /\ update_meal_dining_status(u, pid, day, meal_type, dining_out))
                  => /\ resp' = Response("update", HTTP_OK)
                     /\ ~IsMealType(meal_type) => plans' = plans]_vars

\* a meal object with its dining_out key taken off
MealWithoutFlag(meal) == [f \in DOMAIN meal \ {"dining_out"} |-> meal[f]]

\* entry i of the days is the same in after as in before, except that the
\* dining_out flags of the slots in free may differ
SameEntryBut(before, after, i, free) ==
    /\ DOMAIN after[i] = DOMAIN before[i]
    /\ \A key \in DOMAIN before[i] :
           IF HoldsObject(key)
           THEN /\ MealWithoutFlag(after[i][key]) = MealWithoutFlag(before[i][key])
                /\ key \notin free => after[i][key] = before[i][key]
           ELSE after[i][key] = before[i][key]

\* C14: a successful update-meal request for meal (d, m) of a plan leaves
\* every other plan as it was, and in that plan leaves the identifier, the
\* owner, the timestamp, the number of days, every day number, every name,
\* recipe and nutrition value and the flag of every meal other than (d, m)
\* as they were.  (A step that leaves the whole store as it was satisfies
\* this; the steps that change the store are the ones examined.)
C14_UpdateChangesOneFlagOnly ==
    [][(resp'.op = "update" /\ resp'.status = HTTP_OK /\ plans' # plans) =>
          \A u \in Users, pid \in PlanIds, d \in ReqDays,
             m \in ReqMealTypes, v \in BOOLEAN :
              LET p == FindByIdForUser(pid, u)
                  before == plans[p].meal_plan.days
                  after == plans'[p].meal_plan.days
                  k == TargetIndex(before, d, m)
              IN  (p # 0 /\ update_meal_dining_status(u, pid, d, m, v))
                      => /\ Len(plans') = Len(plans)
                         /\ \A q \in 1..Len(plans) : q # p => plans'[q] = plans[q]
                         /\ plans'[p].meal_plan_id = plans[p].meal_plan_id
                         /\ plans'[p].user_id = plans[p].user_id
                         /\ plans'[p].created_at = plans[p].created_at
                         /\ DOMAIN plans'[p].meal_plan = DOMAIN plans[p].meal_plan
                         /\ Len(after) = Len(before)
                         /\ \A i \in 1..Len(before) :
                                SameEntryBut(before, after, i,
                                             IF i = k THEN {m} ELSE {})]_vars

\* C14 witness: an update-meal request has succeeded while the store holds
\* two plans; one meal of the first carries the flag true and the second
\* has every flag as inserted
C14_Witness ==
    /\ resp = Response("update", HTTP_OK)
    /\ Len(plans) = 2
    /\ FlagOf(plans[1].meal_plan.days, 1, "breakfast") = "true"
    /\ Fresh(plans[2].meal_plan.days)
    /\ IsFallbackDays(plans[1].meal_plan.days)

\* the update-meal requests that returned success
Written == {r \in finished : r.op = "update" /\ r.status = HTTP_OK}

\* r is the request whose write on its plan came last
LastWriter(r) ==
    \A x \in Written : x.meal_plan_id = r.meal_plan_id => x.seq <= r.seq

\* both requests read the same plan before either wrote, a wrote first, and
\* they name different meals
Interleaved(a, b) ==
    /\ a.meal_plan_id = b.meal_plan_id
    /\ b.n \in a.racing
    /\ <<a.day, a.meal_type>> # <<b.day, b.meal_type>>

\* C15: when two update-meal requests on one plan name different meals and
\* both read before either writes, the write that comes second puts back
\* the whole days sequence its request read: as long as it is the last
\* write on the plan, the store holds the second request's flag and, for
\* the meal of the first, the flag the second request read, not the one the
\* first wrote.
C15_InterleavedWritersLoseAnUpdate ==
    \A a, b \in Written :
        (Interleaved(a, b) /\ LastWriter(b)) =>
            LET days == PlanDaysNow(b.meal_plan_id)
                ka == TargetIndex(b.read, a.day, a.meal_type)
                kb == TargetIndex(b.read, b.day, b.meal_type)
            IN  /\ days = SetDiningOut(b.read, b.day, b.meal_type, b.dining_out).days
                /\ kb # 0 => days[kb][b.meal_type]["dining_out"] = b.dining_out
                /\ ka # 0 => FlagOf(days, ka, a.meal_type)
                                 = FlagOf(b.read, ka, a.meal_type)

\* C15 witness: two requests that marked different meals of one plan have
\* both returned success, both read before either wrote, and the store
\* holds the mark of the second and not the mark of the first
C15_Witness ==
    \E a, b \in Written :
        /\ Interleaved(a, b)
        /\ a.dining_out /\ b.dining_out
        /\ inflight = {}
        /\ LET days == PlanDaysNow(b.meal_plan_id)
               ka == TargetIndex(days, a.day, a.meal_type)
               kb == TargetIndex(days, b.day, b.meal_type)
           IN  /\ ka # 0 /\ kb # 0
               /\ FlagOf(a.read, ka, a.meal_type) = "false"
               /\ FlagOf(days, ka, a.meal_type) = "false"
               /\ FlagOf(days, kb, b.meal_type) = "true"

\* the successful requests on plan pid
WrittenOn(pid) == {r \in Written : r.meal_plan_id = pid}

\* the requests on plan pid ran one after the other: none was suspended
\* while another of them wrote
RanAlone(pid) ==
    \A a, b \in WrittenOn(pid) : a.n \notin b.racing

\* the days the successful requests on plan pid leave when they run one
\* after the other in the order they returned, from the k-th of them on
RECURSIVE AppliedInTurn(_, _, _)
AppliedInTurn(days, pid, k) ==
    LET later == {r \in WrittenOn(pid) : r.seq >= k}
    IN  IF later = {} THEN days
        ELSE LET r == CHOOSE x \in later : \A y \in later : x.seq <= y.seq
             IN  AppliedInTurn(
                     SetDiningOut(days, r.day, r.meal_type, r.dining_out).days,
                     pid, r.seq + 1)

\* the days of a stored plan as generate inserted them
AsInserted(days) == AddDiningOutFlags([days |-> days]).days

\* a step in which a suspended update-meal request returns leaves every plan
\* but the one it names as it was
WritesOwnPlanOnly ==
    \A r \in inflight :
        update_meal_update_one(r) =>
            \A q \in 1..Len(plans) :
                plans[q].meal_plan_id # r.meal_plan_id => plans'[q] = plans[q]

\* a plan whose own requests ran one after the other holds the days these
\* requests produce by themselves, whatever requests on other plans were
\* suspended or wrote in between
OwnRequestsDecide ==
    \A p \in 1..Len(plans) :
        RanAlone(plans[p].meal_plan_id) =>
            plans[p].meal_plan.days
                = AppliedInTurn(AsInserted(plans[p].meal_plan.days),
                                plans[p].meal_plan_id, 1)

\* C16: update-meal requests on different plans do not interfere, however
\* their reads and writes interleave: each plan holds what its own requests
\* produce when run alone, and a request never writes the days of a plan
\* other than the one it names.
C16_DifferentPlansIndependent ==
    []OwnRequestsDecide /\ [][WritesOwnPlanOnly]_vars

\* C16 witness: two requests on different plans both read before either
\* wrote, both returned success, and each plan carries its own mark only
C16_Witness ==
    \E a, b \in Written :
        /\ a.meal_plan_id # b.meal_plan_id
        /\ b.n \in a.racing
        /\ <<a.day, a.meal_type, a.dining_out>> = <<1, "breakfast", TRUE>>
        /\ <<b.day, b.meal_type, b.dining_out>> = <<2, "lunch", TRUE>>
        /\ LET da == PlanDaysNow(a.meal_plan_id)
               db == PlanDaysNow(b.meal_plan_id)
           IN  /\ FlagOf(da, 1, "breakfast") = "true"
               /\ FlagOf(da, 2, "lunch") = "false"
               /\ FlagOf(db, 2, "lunch") = "true"
               /\ FlagOf(db, 1, "breakfast") = "false"

\* no two documents of db.users carry the same username
UsernamesUnique ==
    \A i, j \in 1..Len(users) : users[i].username = users[j].username => i = j

\* a register request whose username is stored is rejected and leaves
\* db.users as it was
StoredNameRejected ==
    \A name \in RegisterNames :
        (FindByUsername(name) # 0 /\ register_find_one(name))
            => /\ resp' = Response("register", HTTP_BAD_REQUEST)
               /\ users' = users
               /\ inflight' = inflight

\* C17: usernames are unique in the user store in every reachable state: a
\* register request for a stored username is rejected and inserts nothing,
\* and no interleaving of register requests leaves two documents with one
\* username.
C17_UsernamesUnique ==
    []UsernamesUnique /\ [][StoredNameRejected]_vars

\* the identifiers of the stored plans
StoredIds == {plans[i].meal_plan_id : i \in 1..Len(plans)}

\* C18: the stored plans only grow.  No step removes or replaces a stored
\* plan; a generate request that succeeds appends exactly one plan, owned
\* by the caller, under an identifier no stored plan has, and leaves the
\* plans already stored as they were, each still found by its identifier;
\* a generate request that ends in an error inserts nothing.
C18_PlansOnlyGrow ==
    [][/\ Len(plans') >= Len(plans)
       /\ \A i \in 1..Len(plans) :
              /\ plans'[i].meal_plan_id = plans[i].meal_plan_id
              /\ plans'[i].user_id = plans[i].user_id
              /\ plans'[i].created_at = plans[i].created_at
       /\ resp'.op # "generate" => Len(plans') = Len(plans)
       /\ resp'.op = "generate" =>
              \A u \in Users, outcome \in AiOutcomes, t \in 0..MaxTime :
                  generate_meal_plan(u, outcome, t) =>
                      IF resp'.status = HTTP_OK
                      THEN /\ Len(plans') = Len(plans) + 1
                           /\ \A i \in 1..Len(plans) : plans'[i] = plans[i]
                           /\ plans'[Len(plans')].user_id = u
                           /\ plans'[Len(plans')].meal_plan_id \notin StoredIds
                           /\ resp'.meal_plan_id = plans'[Len(plans')].meal_plan_id
                           /\ \A i \in 1..Len(plans) :
                                  FindByIdForUser(plans[i].meal_plan_id,
                                                  plans[i].user_id)' = i
                      ELSE plans' = plans]_vars

\* C18 witness: the caller's second plan has just been inserted, and the
\* first, with a meal marked since, is still stored under its identifier
C18_Witness ==
    /\ resp.op = "generate"
    /\ resp.status = HTTP_OK
    /\ Len(plans) = 2
    /\ plans[1].user_id = plans[2].user_id
    /\ resp.meal_plan_id = plans[2].meal_plan_id
    /\ FindByIdForUser(plans[1].meal_plan_id, plans[1].user_id) = 1
    /\ ~Fresh(plans[1].meal_plan.days)

\* C19: the injection of dining_out = false is idempotent on a freshly
\* generated plan: applied to the plan a generate request has just built
\* and stored, which is its own result, it gives that plan again.
C19_InjectionIdempotent ==
    [][(resp'.op = "generate" /\ resp'.status = HTTP_OK) =>
          LET inserted == plans'[Len(plans')].meal_plan
          IN  /\ AddDiningOutFlags(inserted) = inserted
              /\ AddDiningOutFlags(AddDiningOutFlags(inserted)) = inserted
              /\ \A u \in Users, outcome \in AiOutcomes, t \in 0..MaxTime :
                     generate_meal_plan(u, outcome, t) =>
                         LET data == generate_meal_plan_with_ai(outcome).data
                         IN  AddDiningOutFlags(AddDiningOutFlags(data))
                                 = AddDiningOutFlags(data)]_vars

\* C19 witness: the plan just stored came from a text that carried a set
\* flag, a meal without recipe and a day without lunch, and the injection
\* has put the flag false on each meal it has
C19_Witness ==
    /\ resp.op = "generate"
    /\ resp.status = HTTP_OK
    /\ LET days == plans[Len(plans)].meal_plan.days
       IN  /\ days[1]["day"] = 2
           /\ "lunch" \notin DOMAIN days[3]
           /\ FlagOf(days, 1, "breakfast") = "false"
           /\ FlagOf(days, 1, "dinner") = "false"

====
